---- MODULE Spec2Model ----
(***************************************************************************)
(* Model of the Assignment Submission API (src/app.py): the in-memory      *)
(* store assignments_db and the handlers submit_assignment,                *)
(* list_assignments, get_assignment, grade_assignment, delete_assignment.  *)
(*                                                                         *)
(* Spec     : every handler runs to completion before the next starts.     *)
(* SpecConc : the handlers run on worker threads and interleave between    *)
(*            their accesses to assignments_db.                            *)
(***************************************************************************)
EXTENDS Integers, Sequences, FiniteSets, TLC

\* ------------------------------------------------------------------ bounds
\* number of identifiers uuid4 can hand out in a run
MaxIds == 2
\* how far the wall clock can advance in a run, in microseconds
MaxTicks == 1
\* number of worker threads serving requests in SpecConc
NThreads == 2

\* ------------------------------------------------------------- value model
\* Python's None / a present value of an Optional field
None == <<>>
Some(x) == <<x>>

\* datetime keeps microseconds; isoformat() prints them only when non-zero
USEC == 1000000
T0 == USEC - 1
TMax == T0 + MaxTicks

\* datetime.isoformat(): "…:SS" when microsecond = 0, "…:SS.ffffff" otherwise.
\* The text is modelled by its fields, in the order they are printed.
isoformat(t) ==
    IF t % USEC = 0 THEN <<t \div USEC>> ELSE <<t \div USEC, t % USEC>>

Ids == 1..MaxIds
Threads == 1..NThreads
Types == {"test", "lab"}
Grades == {-1, 0, 100, 101}

\* request bodies of POST /assignments/submit, before validation: a lab with no
\* submitted_at, a test with an empty student_id and a submitted_at of the
\* client's choosing, and a submission of a type that is neither test nor lab
Submission(sid, type, stamp) ==
    [student_name |-> "John Doe", student_id |-> sid, assignment_type |-> type,
     assignment_name |-> "Lab 1", submission_url |-> "https://x/1",
     submitted_at |-> stamp]

RawSubmission ==
    {Submission("S12345", "lab", None),
     Submission("", "test", Some(isoformat(TMax + USEC))),
     Submission("S12345", "homework", None)}

StudentIds == {s.student_id : s \in RawSubmission}

\* class AssignmentSubmission (the second definition is the one in force)
AssignmentSubmission(s) == s.assignment_type \in Types

\* Python truthiness of an Optional[str]: None and "" are both falsy
Truthy(o) == o # None /\ o[1] # ""

\* the range check without its lower bound
InRange_no_lower(g) == g <= 100

\* the range check with both bounds excluded
InRange_strict(g) == 0 < g /\ g < 100

\* 0 <= grade_data.grade <= 100
InRange(g) == 0 <= g /\ g <= 100

\* ------------------------------------------------------------------- state
VARIABLES
    assignments_db, \* id -> record (a function on the ids present)
    now,            \* the latest reading of the wall clock
    issued,         \* ids uuid4 has returned so far
    deleted,        \* ids removed by a successful delete
    resp,           \* Spec: the last request and its response
    pc, req, out    \* SpecConc: per thread position, request, response

vars == <<assignments_db, now, issued, deleted, resp, pc, req, out>>

Present == DOMAIN assignments_db
Records == {assignments_db[i] : i \in Present}

NoResp == [op |-> "none", id |-> 0, grade |-> 0, ftype |-> None, fsid |-> None,
           status |-> 0, body |-> {}]

Response(op, id, g, ft, fs, status, body) ==
    [op |-> op, id |-> id, grade |-> g, ftype |-> ft, fsid |-> fs,
     status |-> status, body |-> body]

Idle == [t \in Threads |-> "idle"]
NoReq == [t \in Threads |-> [id |-> 0, grade |-> 0]]
NoOut == [t \in Threads |-> [op |-> "none", id |-> 0, status |-> 0, body |-> {}]]

Init ==
    /\ assignments_db = <<>>
    /\ now = T0
    /\ issued = {}
    /\ deleted = {}
    /\ resp = NoResp
    /\ pc = Idle
    /\ req = NoReq
    /\ out = NoOut

\* ------------------------------------------------------------ pure helpers
\* the dict literal with submission.dict() spread last: the client's
\* submitted_at overrides the store's
assignment_data_client_stamp(id, s, t) ==
    [id |-> id,
     student_name |-> s.student_name,
     student_id |-> s.student_id,
     assignment_type |-> s.assignment_type,
     assignment_name |-> s.assignment_name,
     submission_url |-> s.submission_url,
     submitted_at |-> s.submitted_at,
     grade |-> None,
     graded_at |-> None]

\* the dict literal of submit_assignment: later keys override earlier ones,
\* so the store's submitted_at replaces the one in submission.dict()
assignment_data(id, s, t) ==
    [id |-> id,
     student_name |-> s.student_name,
     student_id |-> s.student_id,
     assignment_type |-> s.assignment_type,
     assignment_name |-> s.assignment_name,
     submission_url |-> s.submission_url,
     submitted_at |-> Some(isoformat(t)),
     grade |-> None,
     graded_at |-> None]

\* an identifier unique among the records present only (a counter or a slot
\* number), which comes back after a delete
uuid4_reuse == {i \in Ids \ Present : \A j \in Ids \ Present : i <= j}

\* str(uuid.uuid4()): a random identifier, taken never to repeat. Identifiers
\* are opaque, so the one handed out is fixed to the least unused one.
uuid4 == {i \in Ids \ issued : \A j \in Ids \ issued : i <= j}

\* the two filters of list_assignments
filter_type(results, ft) ==
    IF Truthy(ft) THEN {a \in results : a.assignment_type = ft[1]} ELSE results

filter_student(results, fs) ==
    IF Truthy(fs) THEN {a \in results : a.student_id = fs[1]} ELSE results

\* d[k] = v on a dict
Put(d, k, v) == [i \in DOMAIN d \cup {k} |-> IF i = k THEN v ELSE d[i]]
\* a delete that leaves the record in place
Del_keep(d, k) == d

\* del d[k]
Del(d, k) == [i \in DOMAIN d \ {k} |-> d[i]]

SeqFrame == UNCHANGED <<pc, req, out>>

\* ------------------------------------------------- handlers, run to the end
submit_assignment(s) ==
    /\ SeqFrame
    /\ IF ~AssignmentSubmission(s)
       THEN /\ resp' = Response("submit", 0, 0, None, None, 422, {})
            /\ UNCHANGED <<assignments_db, now, issued, deleted>>
       ELSE \E id \in uuid4, t \in now..TMax :
            LET data == assignment_data(id, s, t) IN
            /\ now' = t
            /\ issued' = issued \cup {id}
            /\ assignments_db' = Put(assignments_db, id, data)
            /\ resp' = Response("submit", id, 0, None, None, 200, {data})
            /\ UNCHANGED deleted

list_assignments(ft, fs) ==
    /\ SeqFrame
    /\ resp' = Response("list", 0, 0, ft, fs, 200,
                        filter_student(filter_type(Records, ft), fs))
    /\ UNCHANGED <<assignments_db, now, issued, deleted>>

\* the body of get_assignment on a store d
get_lookup(d, id) ==
    IF id \notin DOMAIN d
    THEN [status |-> 404, body |-> {}]
    ELSE [status |-> 200, body |-> {d[id]}]

get_assignment(id) ==
    /\ SeqFrame
    /\ LET got == get_lookup(assignments_db, id) IN
       resp' = Response("get", id, 0, None, None, got.status, got.body)
    /\ UNCHANGED <<assignments_db, now, issued, deleted>>

\* grade_assignment storing the grade before it validates it
grade_assignment_write_first(id, g) ==
    /\ SeqFrame
    /\ IF id \notin Present
       THEN /\ resp' = Response("grade", id, g, None, None, 404, {})
            /\ UNCHANGED <<assignments_db, now>>
       ELSE LET r1 == [assignments_db[id] EXCEPT !.grade = Some(g)] IN
            IF ~InRange(g)
            THEN /\ assignments_db' = Put(assignments_db, id, r1)
                 /\ resp' = Response("grade", id, g, None, None, 400, {})
                 /\ UNCHANGED now
            ELSE \E t \in now..TMax :
                 LET r2 == [r1 EXCEPT !.graded_at = Some(isoformat(t))] IN
                 /\ now' = t
                 /\ assignments_db' = Put(assignments_db, id, r2)
                 /\ resp' = Response("grade", id, g, None, None, 200, {r2})
    /\ UNCHANGED <<issued, deleted>>

\* grade_assignment checking the range before the record's existence
grade_assignment_range_first(id, g) ==
    /\ SeqFrame
    /\ IF ~InRange(g)
       THEN /\ resp' = Response("grade", id, g, None, None, 400, {})
            /\ UNCHANGED <<assignments_db, now>>
       ELSE IF id \notin Present
       THEN /\ resp' = Response("grade", id, g, None, None, 404, {})
            /\ UNCHANGED <<assignments_db, now>>
       ELSE \E t \in now..TMax :
            LET r1 == [assignments_db[id] EXCEPT !.grade = Some(g)]
                r2 == [r1 EXCEPT !.graded_at = Some(isoformat(t))]
            IN /\ now' = t
               /\ assignments_db' = Put(assignments_db, id, r2)
               /\ resp' = Response("grade", id, g, None, None, 200, {r2})
    /\ UNCHANGED <<issued, deleted>>

grade_assignment(id, g) ==
    /\ SeqFrame
    /\ IF id \notin Present
       THEN /\ resp' = Response("grade", id, g, None, None, 404, {})
            /\ UNCHANGED <<assignments_db, now>>
       ELSE IF ~InRange(g)
       THEN /\ resp' = Response("grade", id, g, None, None, 400, {})
            /\ UNCHANGED <<assignments_db, now>>
       ELSE \E t \in now..TMax :
            LET r1 == [assignments_db[id] EXCEPT !.grade = Some(g)]
                r2 == [r1 EXCEPT !.graded_at = Some(isoformat(t))]
            IN /\ now' = t
               /\ assignments_db' = Put(assignments_db, id, r2)
               /\ resp' = Response("grade", id, g, None, None, 200, {r2})
    /\ UNCHANGED <<issued, deleted>>

delete_assignment(id) ==
    /\ SeqFrame
    /\ IF id \notin Present
       THEN /\ resp' = Response("delete", id, 0, None, None, 404, {})
            /\ UNCHANGED <<assignments_db, deleted>>
       ELSE /\ assignments_db' = Del(assignments_db, id)
            /\ deleted' = deleted \cup {id}
            /\ resp' = Response("delete", id, 0, None, None, 200, {})
    /\ UNCHANGED <<now, issued>>

TypeFilters == {None} \cup {Some(x) : x \in Types}
StudentFilters == {None} \cup {Some(x) : x \in StudentIds}

Next ==
    \/ \E s \in RawSubmission : submit_assignment(s)
    \/ \E ft \in TypeFilters, fs \in StudentFilters : list_assignments(ft, fs)
    \/ \E id \in Ids : get_assignment(id)
    \/ \E id \in Ids, g \in Grades : grade_assignment(id, g)
    \/ \E id \in Ids : delete_assignment(id)

Spec == Init /\ [][Next]_vars

\* ------------------------------------------- handlers on worker threads
\* The handlers are plain def functions, which the framework runs on a pool of
\* worker threads. No lock guards assignments_db, so a thread can be preempted
\* between any two of its accesses to the store.
ConcFrame == UNCHANGED resp

Out(op, id, status, body) == [op |-> op, id |-> id, status |-> status, body |-> body]

Finish(t, o) ==
    /\ out' = [out EXCEPT ![t] = o]
    /\ pc' = [pc EXCEPT ![t] = "idle"]
    /\ req' = [req EXCEPT ![t] = [id |-> 0, grade |-> 0]]

Goto(t, label, id, g) ==
    /\ pc' = [pc EXCEPT ![t] = label]
    /\ req' = [req EXCEPT ![t] = [id |-> id, grade |-> g]]
    /\ out' = [out EXCEPT ![t] = Out("none", 0, 0, {})]

\* submit_assignment touches the store once (line 113)
conc_submit(t, s) ==
    /\ ConcFrame
    /\ pc[t] = "idle"
    /\ IF ~AssignmentSubmission(s)
       THEN /\ Finish(t, Out("submit", 0, 422, {}))
            /\ UNCHANGED <<assignments_db, now, issued, deleted>>
       ELSE \E id \in uuid4, ts \in now..TMax :
            LET data == assignment_data(id, s, ts) IN
            /\ now' = ts
            /\ issued' = issued \cup {id}
            /\ assignments_db' = Put(assignments_db, id, data)
            /\ Finish(t, Out("submit", id, 200, {data}))
            /\ UNCHANGED deleted

\* list_assignments reads the store once (line 122)
conc_list(t, ft, fs) ==
    /\ ConcFrame
    /\ pc[t] = "idle"
    /\ Finish(t, Out("list", 0, 200, filter_student(filter_type(Records, ft), fs)))
    /\ UNCHANGED <<assignments_db, now, issued, deleted>>

\* get_assignment, line 137: the membership test
get_check(t, id) ==
    /\ ConcFrame
    /\ pc[t] = "idle"
    /\ IF id \notin Present
       THEN Finish(t, Out("get", id, 404, {}))
       ELSE Goto(t, "get_return", id, 0)
    /\ UNCHANGED <<assignments_db, now, issued, deleted>>

\* get_assignment, line 139: the lookup; KeyError is not handled
get_return(t) ==
    /\ ConcFrame
    /\ pc[t] = "get_return"
    /\ IF req[t].id \notin Present
       THEN Finish(t, Out("get", req[t].id, 500, {}))
       ELSE Finish(t, Out("get", req[t].id, 200, {assignments_db[req[t].id]}))
    /\ UNCHANGED <<assignments_db, now, issued, deleted>>

\* grade_assignment, lines 144-148: the membership test and the range check
grade_check(t, id, g) ==
    /\ ConcFrame
    /\ pc[t] = "idle"
    /\ IF id \notin Present
       THEN Finish(t, Out("grade", id, 404, {}))
       ELSE IF ~InRange(g)
       THEN Finish(t, Out("grade", id, 400, {}))
       ELSE Goto(t, "grade_set_grade", id, g)
    /\ UNCHANGED <<assignments_db, now, issued, deleted>>

\* grade_assignment, line 150
grade_set_grade(t) ==
    /\ ConcFrame
    /\ pc[t] = "grade_set_grade"
    /\ IF req[t].id \notin Present
       THEN /\ Finish(t, Out("grade", req[t].id, 500, {}))
            /\ UNCHANGED assignments_db
       ELSE /\ assignments_db' =
                 [assignments_db EXCEPT ![req[t].id].grade = Some(req[t].grade)]
            /\ Goto(t, "grade_set_graded_at", req[t].id, req[t].grade)
    /\ UNCHANGED <<now, issued, deleted>>

\* grade_assignment, line 151
grade_set_graded_at(t) ==
    /\ ConcFrame
    /\ pc[t] = "grade_set_graded_at"
    /\ \E ts \in now..TMax :
        /\ now' = ts
        /\ IF req[t].id \notin Present
           THEN /\ Finish(t, Out("grade", req[t].id, 500, {}))
                /\ UNCHANGED assignments_db
           ELSE /\ assignments_db' =
                     [assignments_db EXCEPT ![req[t].id].graded_at = Some(isoformat(ts))]
                /\ Goto(t, "grade_return", req[t].id, req[t].grade)
    /\ UNCHANGED <<issued, deleted>>

\* grade_assignment, line 153
grade_return(t) ==
    /\ ConcFrame
    /\ pc[t] = "grade_return"
    /\ IF req[t].id \notin Present
       THEN Finish(t, Out("grade", req[t].id, 500, {}))
       ELSE Finish(t, Out("grade", req[t].id, 200, {assignments_db[req[t].id]}))
    /\ UNCHANGED <<assignments_db, now, issued, deleted>>

\* delete_assignment, line 158
delete_check(t, id) ==
    /\ ConcFrame
    /\ pc[t] = "idle"
    /\ IF id \notin Present
       THEN Finish(t, Out("delete", id, 404, {}))
       ELSE Goto(t, "delete_del", id, 0)
    /\ UNCHANGED <<assignments_db, now, issued, deleted>>

\* delete_assignment, line 160
delete_del(t) ==
    /\ ConcFrame
    /\ pc[t] = "delete_del"
    /\ IF req[t].id \notin Present
       THEN /\ Finish(t, Out("delete", req[t].id, 500, {}))
            /\ UNCHANGED <<assignments_db, deleted>>
       ELSE /\ assignments_db' = Del(assignments_db, req[t].id)
            /\ deleted' = deleted \cup {req[t].id}
            /\ Finish(t, Out("delete", req[t].id, 200, {}))
    /\ UNCHANGED <<now, issued>>

NextConc ==
    \/ \E t \in Threads, s \in RawSubmission : conc_submit(t, s)
    \/ \E t \in Threads : conc_list(t, None, None)
    \/ \E t \in Threads, id \in Ids : get_check(t, id)
    \/ \E t \in Threads : get_return(t)
    \/ \E t \in Threads, id \in Ids, g \in Grades : grade_check(t, id, g)
    \/ \E t \in Threads : grade_set_grade(t)
    \/ \E t \in Threads : grade_set_graded_at(t)
    \/ \E t \in Threads : grade_return(t)
    \/ \E t \in Threads, id \in Ids : delete_check(t, id)
    \/ \E t \in Threads : delete_del(t)

SpecConc == Init /\ [][NextConc]_vars

\* ================================================================ claims
\* a grade within [0, 100] inclusive
ValidGrade(g) == 0 <= g /\ g <= 100

\* order of two isoformat texts, which is also the order of their instants:
\* a text without the fraction is a prefix of, and so sorts before, the texts
\* of the same second with one
TsLeq(a, b) ==
    \/ a[1] < b[1]
    \/ a[1] = b[1] /\ (Len(a) = 1 \/ (Len(b) = 2 /\ a[2] <= b[2]))

\* the fields fixed at creation
Fixed(r) ==
    <<r.id, r.student_name, r.student_id, r.assignment_type, r.assignment_name,
      r.submission_url, r.submitted_at>>

ReadOps == {"get", "list"}

\* C1: no reader (Get or List) running concurrently with a SetGrade observes a
\* record with grade present and graded_at absent.
C1_NoPartialRead ==
    \A t \in Threads :
        out[t].op \in ReadOps =>
            \A r \in out[t].body : (r.grade # None) <=> (r.graded_at # None)

\* C2: under any interleaving of Get, SetGrade and Delete, every call ends in
\* success, NotFound or InvalidGrade, never in an unhandled failure.
C2_NoUnhandledFailure ==
    \A t \in Threads : out[t].status # 500

\* C3: every stored record has grade absent or within [0, 100], and graded_at
\* present exactly when grade is present.
C3_RecordInvariant ==
    \A i \in Present :
        LET r == assignments_db[i] IN
        /\ r.grade = None \/ ValidGrade(r.grade[1])
        /\ (r.graded_at # None) <=> (r.grade # None)

C3_Witness ==
    /\ resp.op = "grade" /\ resp.status = 400
    /\ resp.id \in Present
    /\ assignments_db[resp.id].grade = Some(100)
    /\ \E j \in Present : assignments_db[j].grade = None
    /\ deleted = {}

\* C4: once an id has been deleted it is never present again: Get of it is
\* NotFound and no List returns it, whatever calls follow.
C4_DeletedStaysGone ==
    \A i \in deleted :
        /\ i \notin Present
        /\ (resp.op = "get" /\ resp.id = i) => (resp.status = 404 /\ resp.body = {})
        /\ resp.op = "list" => \A r \in resp.body : r.id # i

C4_Witness ==
    \E i \in deleted :
        /\ resp.op = "get" /\ resp.id = i /\ resp.status = 404
        /\ \E j \in Present : j > i

\* C5: SetGrade of a present id with a grade in [0, 100] succeeds, and a Get
\* that follows returns the record with that grade and a graded_at that is not
\* before submitted_at.
C5_Step ==
    \A i \in Present :
        (resp'.op = "grade" /\ resp'.id = i /\ ValidGrade(resp'.grade)) =>
            /\ resp'.status = 200
            /\ LET got == get_lookup(assignments_db', i) IN
               /\ got.status = 200
               /\ got.body = resp'.body
               /\ \A r \in got.body :
                    /\ r.grade = Some(resp'.grade)
                    /\ r.graded_at # None
                    /\ r.submitted_at # None
                    /\ TsLeq(r.submitted_at[1], r.graded_at[1])

C5_SetGradeInRange == [][C5_Step]_vars

C5_Witness ==
    /\ resp.op = "grade" /\ resp.status = 200 /\ resp.grade = 0
    /\ \E r \in resp.body :
        /\ r.submitted_at = Some(isoformat(T0))
        /\ r.graded_at = Some(isoformat(USEC))

\* C6: SetGrade of a present id with a grade outside [0, 100] fails with 400
\* and leaves the whole store unchanged.
C6_Step ==
    \A i \in Present :
        (resp'.op = "grade" /\ resp'.id = i /\ ~ValidGrade(resp'.grade)) =>
            /\ resp'.status = 400
            /\ assignments_db' = assignments_db

C6_SetGradeOutOfRange == [][C6_Step]_vars

C6_Witness ==
    /\ resp.op = "grade" /\ resp.status = 400 /\ resp.grade = 101
    /\ resp.id \in Present
    /\ assignments_db[resp.id].grade = Some(0)
    /\ Cardinality(Present) = 2

\* C7: Get, Delete and SetGrade (with any grade) of an id that is not present
\* fail with 404 and leave the store unchanged.
C7_Step ==
    \A i \in Ids \ Present :
        (resp'.op \in {"get", "delete", "grade"} /\ resp'.id = i) =>
            /\ resp'.status = 404
            /\ assignments_db' = assignments_db

C7_NotFound == [][C7_Step]_vars

C7_Witness ==
    /\ resp.op = "grade" /\ resp.status = 404 /\ resp.grade = 101
    /\ resp.id \in deleted
    /\ Present # {}

\* C8: a successful Create returns a record whose id was never handed out
\* before, with grade and graded_at absent, and adds exactly that record to the
\* store, leaving every other record as it was.
C8_Step ==
    (resp'.op = "submit" /\ resp'.status = 200) =>
        \E r \in resp'.body :
            /\ resp'.body = {r}
            /\ r.id \notin issued
            /\ r.id \notin Present
            /\ r.grade = None /\ r.graded_at = None
            /\ DOMAIN assignments_db' = Present \cup {r.id}
            /\ assignments_db'[r.id] = r
            /\ \A i \in Present : assignments_db'[i] = assignments_db[i]

C8_CreateFresh == [][C8_Step]_vars

C8_Witness ==
    /\ resp.op = "submit" /\ resp.status = 200
    /\ deleted # {}
    /\ Cardinality(Present) = 1

\* C9: List returns exactly the stored records that match every supplied
\* filter, a supplied student_id of "" included.
C9_ListExact ==
    resp.op = "list" =>
        resp.body =
            {r \in Records :
                /\ resp.ftype # None => r.assignment_type = resp.ftype[1]
                /\ resp.fsid # None => r.student_id = resp.fsid[1]}

\* C10: only a successful SetGrade changes a record, and only its grade and
\* graded_at; the other fields keep their creation-time values, submitted_at
\* being the store's clock reading at creation; Get and List change nothing.
C10_Step ==
    /\ \A i \in Present \cap DOMAIN assignments_db' :
        /\ Fixed(assignments_db'[i]) = Fixed(assignments_db[i])
        /\ assignments_db'[i] # assignments_db[i] =>
               (resp'.op = "grade" /\ resp'.id = i /\ resp'.status = 200)
    /\ resp'.op \in ReadOps => assignments_db' = assignments_db
    /\ (resp'.op = "submit" /\ resp'.status = 200) =>
           \A r \in resp'.body : r.submitted_at = Some(isoformat(now'))

C10_Frame == [][C10_Step]_vars

C10_Witness ==
    /\ resp.op = "grade" /\ resp.status = 200
    /\ Cardinality(Present) = 2
    /\ \E i \in Present :
        /\ assignments_db[i].student_id = ""
        /\ assignments_db[i].grade = Some(100)
        /\ assignments_db[i].submitted_at = Some(isoformat(USEC))

====
